---- MODULE Spec2Model ----
(***************************************************************************)
(* The Stripe webhook service of python/stripe-webhooks: the two entry     *)
(* points of app.py (webhook, pubsub), the pipeline process_event, the     *)
(* signature verifier of lib/stripe.py, the publisher of lib/publisher.py  *)
(* and the webhook tracker of context.py over the table of lib/tables.py.  *)
(*                                                                         *)
(* Every request is served by its own task.  A task is preempted only at   *)
(* an await that touches shared state (a query on webhook_trackers), so    *)
(* one action is the code between two such awaits.                         *)
(***************************************************************************)
EXTENDS Integers, Sequences, FiniteSets, TLC

\* Number of requests that can be in flight at once.
NumWorkers == 2
\* Largest `created` timestamp an event carries.
MaxCreated == 3

Workers == 1..NumWorkers

\* Python's None.
None == "None"
\* A payload (event.data.object) that has no "id" entry: StripeEventData.object
\* is an arbitrary dict.
NoId == "NoId"

(***************************************************************************)
(* Events.  A type is the list event.type.split(".") yields.               *)
(***************************************************************************)
InvoicePaid == <<"invoice", "paid">>
InvoiceVoided == <<"invoice", "voided">>
SubscriptionCreated == <<"customer", "subscription", "created">>

StripeEvent(type, object_id, created) ==
    [type |-> type, object_id |-> object_id, created |-> created]

\* The events requests carry: every timestamp for one invoice, one event of
\* a second invoice, one event whose payload has no id, and events of the
\* two kinds of type that have no handler, with and without a payload id.
Events ==
    {StripeEvent(InvoicePaid, "in_1", c) : c \in 1..MaxCreated}
        \cup {StripeEvent(InvoicePaid, "in_2", 1), StripeEvent(InvoicePaid, NoId, 1)}
        \cup {StripeEvent(ty, id, 1) :
                ty \in {InvoiceVoided, SubscriptionCreated}, id \in {"in_1", NoId}}

\* The logical key of a tracker row or of an event.
Key(event_id, event_type) == <<event_id, event_type>>
EventKey(e) == Key(e.object_id, e.type)
Keys == {EventKey(e) : e \in {x \in Events : x.object_id # NoId}}

(***************************************************************************)
(* lib/stripe.py                                                           *)
(***************************************************************************)
\* What verifying the Stripe-Signature header of a request can meet: a valid
\* header, a header that cannot be parsed, a signature made with another
\* secret, a timestamp outside the tolerance, and an HMAC input (the secret
\* read from the environment) that cannot be encoded as UTF-8.
Signatures == {"valid", "malformed", "wrong_secret", "expired", "unencodable"}
\* The verification failures of the header itself.
SignatureFailures == {"malformed", "wrong_secret", "expired"}

\* stripe.WebhookSignature.verify_header: returns for a valid header and
\* raises stripe.error.SignatureVerificationError, a StripeError, for a
\* header it cannot parse, a signature that does not match and a timestamp
\* outside the tolerance.  Encoding the HMAC input raises UnicodeEncodeError,
\* a ValueError.
verify_header(signature) ==
    CASE signature = "valid" -> "returns"
      [] signature \in SignatureFailures -> "SignatureVerificationError"
      [] OTHER -> "ValueError"

\* Stripe.verify_signature: "True", "False", or "raised" when the exception
\* of verify_header is not the one the except clause names.
verify_signature(signature) ==
    LET r == verify_header(signature) IN
    CASE r = "returns" -> "True"
      [] r = "ValueError" -> "False"
      [] OTHER -> "raised"

(***************************************************************************)
(* lib/publisher.py                                                        *)
(***************************************************************************)
MISSING == "MISSING"

\* Publisher.__init__: default_topic is PUBSUB_TOPIC or None, client is a
\* PublisherClient or MISSING.
Publishers ==
    {[client |-> c, default_topic |-> tp] :
        c \in {"PublisherClient", MISSING}, tp \in {None, "topic"}}

\* Faulty variant of is_connected: the client is compared with None, which
\* MISSING is not.
is_connected_not_none(p) == p.client # None

is_connected(p) == p.client # MISSING

\* bool(x) of a topic: None and "" are false.
Truthy(x) == x \notin {None, ""}

(***************************************************************************)
(* Handler resolution, app.py:82-117                                       *)
(***************************************************************************)
\* The files under events/ and the functions each defines.
EventModules == {<<"invoice">>}
ModuleFunctions(parts) == IF parts = <<"invoice">> THEN {"paid"} ELSE {}

\* What exec_module can do when the file exists: run to the end, or raise
\* what a Stripe call made while the module loads raises.
LoadOutcomes == {"loaded", "RateLimitError", "StripeError429", "StripeError"}

\* parts = event.type.split("."); fname = parts.pop(), then the import and
\* the getattr.  The result is "found" or the exception raised.
resolve(type, load) ==
    LET fname == type[Len(type)]
        parts == SubSeq(type, 1, Len(type) - 1)
    IN  IF parts \notin EventModules THEN "FileNotFoundError"
        ELSE IF load # "loaded" THEN load
        ELSE IF fname \notin ModuleFunctions(parts) THEN "AttributeError"
        ELSE "found"

(***************************************************************************)
(* Where a request ends: the return or raise statement taken.              *)
(***************************************************************************)
Returns ==
    {"unauthorized", "raise_verify", "published", "raise_publish", "dropped",
     "ack_no_module", "ack_no_handler", "raise_unresolved_log",
     "raise_rate_limited", "raise_rate_limited_log", "raise_assert",
     "raise_fetch", "ack_stale", "raise_handler", "raise_insert", "ack_handled"}

\* {"success": True}
Success == "200 success"

\* The response the transport layer makes of each.
Response(r) ==
    CASE r \in {"ack_no_module", "ack_no_handler", "ack_stale", "ack_handled"} -> Success
      [] r = "unauthorized" -> "401"
      [] r = "dropped" -> "204"
      [] r = "published" -> "200 null"
      [] r = "raise_rate_limited" -> "429"
      [] OTHER -> "500"

\* The operations a request can perform, counted per request.
Ops == {"resolve", "fetch", "handler", "write", "publish"}
NoCalls == [o \in Ops |-> 0]

VARIABLES
    publisher,         \* the process-wide Publisher
    unique_key,        \* whether the deployed table rejects a second row for a key
    webhook_trackers,  \* the table: a sequence of rows, a row's id is its index
    pc,                \* where each task is
    req,               \* the request a task has accepted, until it ends or
                       \* process_event starts on its event
    ev,                \* the event of the task's process_event call
    t,                 \* the local t of check_webhook_tracker, then that of
                       \* increment_webhook_tracker: a row id or NoRow
    ret,               \* where the task's last request ended
    calls,             \* what the task's current (or last) request has performed
    handled_max,       \* per key, the largest created of an event processed to its commit
    superseded,        \* whether, when process_event was called, an event of the same
                       \* key with a larger created had been processed to its commit
    sent               \* the payload the task's request passed to publisher.publish

vars ==
    <<publisher, unique_key, webhook_trackers, pc, req, ev, t, ret, calls,
      handled_max, superseded, sent>>

\* environ.get("PUBSUB_SECRET") and the secrets an envelope can hold.
PUBSUB_SECRET == "pubsub-secret"
Secrets == {PUBSUB_SECRET, "other-secret"}

\* Faulty variant of secret_mismatch: the comparison inverted.
secret_mismatch_inverted(secret) == secret = PUBSUB_SECRET

\* Faulty variant of secret_mismatch: PUBSUB_SECRET is not set, and None
\* differs from every secret.
secret_mismatch_unset(secret) == secret # None

\* app.py:62.
secret_mismatch(secret) == secret # PUBSUB_SECRET

\* Faulty variant of Envelope: the secret is read from a variable that is
\* not set.
Envelope_unset_secret(secret, event) == [secret |-> None, event |-> event]

\* app.py:55, the PubSubEvent of lib/models.py.
Envelope(secret, event) == [secret |-> secret, event |-> event]

Requests ==
    {[path |-> "/receive", cred |-> s] : s \in Signatures}
        \cup {[path |-> "/pubsub", cred |-> s] : s \in Secrets}

(***************************************************************************)
(* context.py: the tracker                                                 *)
(***************************************************************************)
\* The ids of the rows SELECT ... WHERE event_id = :event_id AND
\* event_type = :event_type matches.
Matching(table, e) ==
    {i \in 1..Len(table) :
        table[i].event_id = e.object_id /\ table[i].event_type = e.type}

\* The row id that stands for "no row": fetch_one returned None.
NoRow == 0

\* fetch_webhook_tracker: fetch_one gives one of the matching rows, or None.
fetch_webhook_tracker(table, e) ==
    IF Matching(table, e) = {} THEN {NoRow} ELSE Matching(table, e)

\* Faulty variant of check_webhook_tracker: an event as old as the row passes.
check_webhook_tracker_lte(table, e, r) ==
    IF r = NoRow THEN TRUE ELSE table[r].updated <= e.created

\* Faulty variant of check_webhook_tracker: the row is not compared at all.
check_webhook_tracker_any(table, e, r) == TRUE

\* Faulty variant of check_webhook_tracker: the comparison is the wrong way
\* round.
check_webhook_tracker_gt(table, e, r) ==
    IF r = NoRow THEN TRUE ELSE table[r].updated > e.created

\* check_webhook_tracker on the fetched row r.
check_webhook_tracker(table, e, r) ==
    IF r = NoRow THEN TRUE ELSE table[r].updated < e.created

\* Faulty variant of insert_tracker: "updated" is left out of the values.
insert_tracker_no_updated(table, e) ==
    Append(table, [event_id |-> e.object_id, event_type |-> e.type, updated |-> 0])

\* The insert of increment_webhook_tracker; the id is a fresh uuid4().
insert_tracker(table, e) ==
    Append(table,
           [event_id |-> e.object_id, event_type |-> e.type, updated |-> e.created])

\* Faulty variant of update_tracker: the row's own timestamp is written back.
update_tracker_stale(table, e, id) ==
    [table EXCEPT ![id].updated = table[id].updated]

\* Faulty variant of update_tracker: the update is guarded by the stored
\* timestamp, WHERE id = t.id AND updated < created.
update_tracker_guarded(table, e, id) ==
    IF table[id].updated < e.created
    THEN [table EXCEPT ![id].updated = e.created]
    ELSE table

\* Faulty variant of update_tracker: the update has no WHERE clause.
update_tracker_no_where(table, e, id) ==
    [i \in 1..Len(table) |-> [table[i] EXCEPT !.updated = e.created]]

\* The update of increment_webhook_tracker, WHERE id = t.id.
update_tracker(table, e, id) ==
    [table EXCEPT ![id].updated = e.created]

\* Whether the insert raises UniqueViolationError.
insert_collides(table, e) == unique_key /\ Matching(table, e) # {}

----
Max(S) == CHOOSE x \in S : \A y \in S : y <= x

Init ==
    /\ publisher \in Publishers
    /\ unique_key \in BOOLEAN
    /\ webhook_trackers = <<>>
    /\ pc = [w \in Workers |-> "idle"]
    /\ req = [w \in Workers |-> None]
    /\ ev = [w \in Workers |-> None]
    /\ t = [w \in Workers |-> NoRow]
    /\ ret = [w \in Workers |-> None]
    /\ calls = [w \in Workers |-> NoCalls]
    /\ handled_max = [k \in Keys |-> 0]
    /\ superseded = [w \in Workers |-> FALSE]
    /\ sent = [w \in Workers |-> None]

\* One more call of operation o by task w.
Count(w, o) == [calls EXCEPT ![w][o] = @ + 1]

\* The request of task w ends at r; the task is free again.
Finish(w, r, c) ==
    /\ pc' = [pc EXCEPT ![w] = "idle"]
    /\ ret' = [ret EXCEPT ![w] = r]
    /\ ev' = [ev EXCEPT ![w] = None]
    /\ t' = [t EXCEPT ![w] = NoRow]
    /\ superseded' = [superseded EXCEPT ![w] = FALSE]
    /\ calls' = c

\* The server accepts a request and hands it to a free task.
Arrive(w) ==
    /\ pc[w] = "idle"
    /\ \E r \in Requests : req' = [req EXCEPT ![w] = r]
    /\ pc' = [pc EXCEPT ![w] = "accepted"]
    /\ ret' = [ret EXCEPT ![w] = None]
    /\ calls' = [calls EXCEPT ![w] = NoCalls]
    /\ sent' = [sent EXCEPT ![w] = None]
    /\ UNCHANGED <<publisher, unique_key, webhook_trackers, ev, t, handled_max,
                   superseded>>

\* process_event is called with event e.
Enter(w, e) ==
    /\ pc' = [pc EXCEPT ![w] = "process_event"]
    /\ ev' = [ev EXCEPT ![w] = e]
    /\ superseded' =
        [superseded EXCEPT
            ![w] = e.object_id # NoId /\ handled_max[EventKey(e)] > e.created]
    /\ UNCHANGED <<req, t, ret, calls, sent>>

\* The endpoint of task w returns or raises at r without calling process_event.
Respond(w, r, c) ==
    /\ Finish(w, r, c)
    /\ req' = [req EXCEPT ![w] = None]

\* app.py:42-56.  The body is drawn where the code first uses the event.
\* publisher.publish returns when the broker has accepted the payload
\* (future.result()) and raises what the broker reports.
webhook(w) ==
    /\ pc[w] = "accepted"
    /\ req[w].path = "/receive"
    /\ LET v == verify_signature(req[w].cred) IN
       CASE v = "raised" -> Respond(w, "raise_verify", calls) /\ UNCHANGED sent
         [] v = "False" -> Respond(w, "unauthorized", calls) /\ UNCHANGED sent
         [] OTHER ->
            IF ~is_connected(publisher) \/ ~Truthy(publisher.default_topic)
            THEN \E e \in Events : Enter(w, e)
            ELSE \E e \in Events, ok \in BOOLEAN :
                    /\ sent' = [sent EXCEPT ![w] = Envelope(PUBSUB_SECRET, e)]
                    /\ Respond(w, IF ok THEN "published" ELSE "raise_publish",
                               Count(w, "publish"))
    /\ UNCHANGED <<publisher, unique_key, webhook_trackers, handled_max>>

\* app.py:59-67.
pubsub(w) ==
    /\ pc[w] = "accepted"
    /\ req[w].path = "/pubsub"
    /\ IF secret_mismatch(req[w].cred)
       THEN Respond(w, "dropped", calls) /\ UNCHANGED sent
       ELSE \E e \in Events : Enter(w, e)
    /\ UNCHANGED <<publisher, unique_key, webhook_trackers, handled_max>>

\* ctx.warning: prepare_log_extras reads self.resource["id"], a KeyError
\* when the payload has no id.  r is where the code goes after the log,
\* x where the request ends when the log raises.
Warned(w, r, x, c) ==
    IF ev[w].object_id = NoId THEN Finish(w, x, c) ELSE Finish(w, r, c)

\* app.py:70-119: handler resolution.  A StripeError that is not a 429 is
\* caught and dropped at app.py:112-117, so `assert fun is not None` fails.
process_event(w) ==
    /\ pc[w] = "process_event"
    /\ \E load \in LoadOutcomes :
        LET r == resolve(ev[w].type, load)
            c == Count(w, "resolve")
        IN  CASE r = "FileNotFoundError" ->
                    Warned(w, "ack_no_module", "raise_unresolved_log", c)
              [] r = "AttributeError" ->
                    Warned(w, "ack_no_handler", "raise_unresolved_log", c)
              [] r \in {"RateLimitError", "StripeError429"} ->
                    Warned(w, "raise_rate_limited", "raise_rate_limited_log", c)
              [] r = "StripeError" -> Finish(w, "raise_assert", c)
              [] OTHER ->
                    /\ pc' = [pc EXCEPT ![w] = "gate"]
                    /\ calls' = c
                    /\ UNCHANGED <<ev, t, ret, superseded>>
    /\ req' = [req EXCEPT ![w] = None]
    /\ UNCHANGED <<publisher, unique_key, webhook_trackers, handled_max, sent>>

\* Variant of gate that is not the code's: the event's timestamp is written
\* in the step that reads the row, so a pass is visible to the next read.
gate_reserving(w) ==
    /\ pc[w] = "gate"
    /\ IF ev[w].object_id = NoId
       THEN Finish(w, "raise_fetch", calls) /\ UNCHANGED webhook_trackers
       ELSE \E r \in fetch_webhook_tracker(webhook_trackers, ev[w]) :
                IF check_webhook_tracker(webhook_trackers, ev[w], r)
                THEN /\ pc' = [pc EXCEPT ![w] = "handler"]
                     /\ t' = [t EXCEPT ![w] = IF r = NoRow
                                              THEN Len(webhook_trackers) + 1 ELSE r]
                     /\ webhook_trackers' =
                            (IF r = NoRow
                             THEN insert_tracker(webhook_trackers, ev[w])
                             ELSE update_tracker(webhook_trackers, ev[w], r))
                     /\ calls' = Count(w, "fetch")
                     /\ UNCHANGED <<ev, ret, superseded>>
                ELSE /\ Finish(w, "ack_stale", Count(w, "fetch"))
                     /\ UNCHANGED webhook_trackers
    /\ UNCHANGED <<publisher, unique_key, req, handled_max, sent>>

\* app.py:121-123 with check_webhook_tracker, context.py:72-76.
gate(w) ==
    /\ pc[w] = "gate"
    /\ IF ev[w].object_id = NoId
       THEN Finish(w, "raise_fetch", calls)
       ELSE \E r \in fetch_webhook_tracker(webhook_trackers, ev[w]) :
                IF check_webhook_tracker(webhook_trackers, ev[w], r)
                THEN /\ pc' = [pc EXCEPT ![w] = "handler"]
                     /\ t' = [t EXCEPT ![w] = r]
                     /\ calls' = Count(w, "fetch")
                     /\ UNCHANGED <<ev, ret, superseded>>
                ELSE Finish(w, "ack_stale", Count(w, "fetch"))
    /\ UNCHANGED <<publisher, unique_key, webhook_trackers, req, handled_max, sent>>

\* Faulty variant of handler: the timestamp is written before the handler is
\* awaited, so it is written when the handler raises too.
handler_commit_first(w) ==
    /\ pc[w] = "handler"
    /\ webhook_trackers' =
        (IF Matching(webhook_trackers, ev[w]) = {}
         THEN insert_tracker(webhook_trackers, ev[w])
         ELSE update_tracker(webhook_trackers, ev[w],
                             CHOOSE i \in Matching(webhook_trackers, ev[w]) : TRUE))
    /\ \E ok \in BOOLEAN :
        IF ok
        THEN /\ pc' = [pc EXCEPT ![w] = "increment"]
             /\ calls' = Count(w, "handler")
             /\ UNCHANGED <<ev, t, ret, superseded>>
        ELSE Finish(w, "raise_handler", Count(w, "handler"))
    /\ UNCHANGED <<publisher, unique_key, req, handled_max, sent>>

\* Faulty variant of handler: a handler that raises is awaited a second
\* time before the exception is let through.
handler_retrying(w) ==
    /\ pc[w] = "handler"
    /\ \E ok \in BOOLEAN :
        IF ok
        THEN /\ pc' = [pc EXCEPT ![w] = "increment"]
             /\ calls' = Count(w, "handler")
             /\ UNCHANGED <<ev, t, ret, superseded>>
        ELSE IF calls[w]["handler"] = 0
             THEN /\ calls' = Count(w, "handler")
                  /\ UNCHANGED <<pc, ev, t, ret, superseded>>
             ELSE Finish(w, "raise_handler", Count(w, "handler"))
    /\ UNCHANGED <<publisher, unique_key, webhook_trackers, req, handled_max, sent>>

\* app.py:127: await fun(ctx) returns or raises.
handler(w) ==
    /\ pc[w] = "handler"
    /\ \E ok \in BOOLEAN :
        IF ok
        THEN /\ pc' = [pc EXCEPT ![w] = "increment"]
             /\ calls' = Count(w, "handler")
             /\ UNCHANGED <<ev, t, ret, superseded>>
        ELSE Finish(w, "raise_handler", Count(w, "handler"))
    /\ UNCHANGED <<publisher, unique_key, webhook_trackers, req, handled_max, sent>>

\* context.py:80-84: the fetch of increment_webhook_tracker.
increment_fetch(w) ==
    /\ pc[w] = "increment"
    /\ \E r \in fetch_webhook_tracker(webhook_trackers, ev[w]) :
        t' = [t EXCEPT ![w] = r]
    /\ pc' = [pc EXCEPT ![w] = "write"]
    /\ calls' = Count(w, "fetch")
    /\ UNCHANGED <<publisher, unique_key, webhook_trackers, req, ev, ret, handled_max,
                   superseded, sent>>

\* The event of task w has been processed to its commit.
Handled(w) ==
    /\ Finish(w, "ack_handled", Count(w, "write"))
    /\ handled_max' =
        [handled_max EXCEPT ![EventKey(ev[w])] = Max({@, ev[w].created})]

\* context.py:86-111 and app.py:131: the write of increment_webhook_tracker.
increment_write(w) ==
    /\ pc[w] = "write"
    /\ IF t[w] = NoRow
       THEN IF insert_collides(webhook_trackers, ev[w])
            THEN /\ Finish(w, "raise_insert", calls)
                 /\ UNCHANGED <<webhook_trackers, handled_max>>
            ELSE /\ webhook_trackers' = insert_tracker(webhook_trackers, ev[w])
                 /\ Handled(w)
       ELSE /\ webhook_trackers' = update_tracker(webhook_trackers, ev[w], t[w])
            /\ Handled(w)
    /\ UNCHANGED <<publisher, unique_key, req, sent>>

Step(w) ==
    \/ Arrive(w)
    \/ webhook(w)
    \/ pubsub(w)
    \/ process_event(w)
    \/ gate(w)
    \/ handler(w)
    \/ increment_fetch(w)
    \/ increment_write(w)

Next == \E w \in Workers : Step(w)

Spec == Init /\ [][Next]_vars

\* Requests served one after another: a request is accepted only while no
\* other task has one, so every later step of it runs alone as well.
Alone(w) == \A o \in Workers \ {w} : pc[o] = "idle"

SeqArrive(w) == Alone(w) /\ Arrive(w)

SeqNext ==
    \E w \in Workers :
        \/ SeqArrive(w)
        \/ webhook(w)
        \/ pubsub(w)
        \/ process_event(w)
        \/ gate(w)
        \/ handler(w)
        \/ increment_fetch(w)
        \/ increment_write(w)

SeqSpec == Init /\ [][SeqNext]_vars

(***************************************************************************)
(* One delivery run from start to end with no other request in between:    *)
(* the results the code can produce from a given table, as the set of      *)
(* [ret, handler, table] over what the environment can do (the module      *)
(* load, the handler, the row fetch_one picks).                            *)
(***************************************************************************)
Result(r, h, table) == [ret |-> r, handler |-> h, table |-> table]

\* context.py:86-111 after the fetch at context.py:84.
run_increment(table, e) ==
    {IF r = NoRow
     THEN IF insert_collides(table, e)
          THEN Result("raise_insert", 1, table)
          ELSE Result("ack_handled", 1, insert_tracker(table, e))
     ELSE Result("ack_handled", 1, update_tracker(table, e, r)) :
        r \in fetch_webhook_tracker(table, e)}

\* app.py:127-131.
run_handler(table, e) ==
    {Result("raise_handler", 1, table)} \cup run_increment(table, e)

\* app.py:121-131.
run_gate(table, e) ==
    IF e.object_id = NoId
    THEN {Result("raise_fetch", 0, table)}
    ELSE UNION {IF check_webhook_tracker(table, e, r)
                THEN run_handler(table, e)
                ELSE {Result("ack_stale", 0, table)} :
                    r \in fetch_webhook_tracker(table, e)}

\* app.py:70-131.
run_process_event(table, e) ==
    UNION {LET r == resolve(e.type, load)
               logs == e.object_id # NoId
           IN  CASE r = "FileNotFoundError" ->
                        {Result(IF logs THEN "ack_no_module"
                                ELSE "raise_unresolved_log", 0, table)}
                 [] r = "AttributeError" ->
                        {Result(IF logs THEN "ack_no_handler"
                                ELSE "raise_unresolved_log", 0, table)}
                 [] r \in {"RateLimitError", "StripeError429"} ->
                        {Result(IF logs THEN "raise_rate_limited"
                                ELSE "raise_rate_limited_log", 0, table)}
                 [] r = "StripeError" -> {Result("raise_assert", 0, table)}
                 [] OTHER -> run_gate(table, e) :
            load \in LoadOutcomes}

\* app.py:42-56 for publisher p.
run_webhook(table, p, signature, e) ==
    LET v == verify_signature(signature) IN
    CASE v = "raised" -> {Result("raise_verify", 0, table)}
      [] v = "False" -> {Result("unauthorized", 0, table)}
      [] OTHER ->
            IF ~is_connected(p) \/ ~Truthy(p.default_topic)
            THEN run_process_event(table, e)
            ELSE {Result("published", 0, table), Result("raise_publish", 0, table)}

\* app.py:59-67.
run_pubsub(table, pubsub_event) ==
    IF secret_mismatch(pubsub_event.secret)
    THEN {Result("dropped", 0, table)}
    ELSE run_process_event(table, pubsub_event.event)

----
(***************************************************************************)
(* Vocabulary of the properties                                            *)
(***************************************************************************)
\* The stored timestamps of the rows of key k.
Stored(table, k) ==
    {table[i].updated :
        i \in {j \in 1..Len(table) : Key(table[j].event_id, table[j].event_type) = k}}

\* Task w takes the step that leaves program point p.
Leaves(w, p) == pc[w] = p /\ pc'[w] # p

\* The request of task w has invoked no handler and has not touched the tracker.
Untouched(c) == c["fetch"] = 0 /\ c["handler"] = 0 /\ c["write"] = 0

C2_TrackerMonotonic ==
    [][\A i \in 1..Len(webhook_trackers) :
        webhook_trackers'[i].updated >= webhook_trackers[i].updated]_vars

\* C3 (monotonic convergence): with requests processed one after another, in
\* any order of arrival, the table holds for each key exactly one row with
\* the largest created among the events of that key that were not skipped
\* and whose handler succeeded, and no row when there is no such event.
C3_MonotonicConvergence ==
    \A k \in Keys :
        /\ Stored(webhook_trackers, k) =
            (IF handled_max[k] = 0 THEN {} ELSE {handled_max[k]})
        /\ Cardinality({i \in 1..Len(webhook_trackers) :
                Key(webhook_trackers[i].event_id, webhook_trackers[i].event_type) = k}) <= 1

\* C3 witness: an older event arrived after the newest one and was skipped,
\* and the row holds the newest timestamp.
C3_Witness ==
    \E w \in Workers : \E k \in Keys :
        /\ \A o \in Workers : pc[o] = "idle"
        /\ ret[w] = "ack_stale"
        /\ handled_max[k] = MaxCreated
        /\ Stored(webhook_trackers, k) = {MaxCreated}
        /\ \A j \in Keys \ {k} : Stored(webhook_trackers, j) = {}

\* C4 (stale suppression): when process_event is called for an event e1
\* after an event e2 of the same key with e1.created < e2.created has been
\* processed to its commit, the gate skips e1: no handler, table untouched.
C4_StaleSuppression ==
    [][\A w \in Workers :
        (Leaves(w, "gate") /\ superseded[w])
        => /\ ret'[w] = "ack_stale"
           /\ calls'[w]["handler"] = 0
           /\ webhook_trackers' = webhook_trackers]_vars

\* C5 (fresh acceptance): with requests processed one after another, an
\* event whose key has no row, or only a stored timestamp below the event's
\* created, passes the gate; once its handler has returned the commit
\* follows, and when it is done the handler has run exactly once, the table
\* holds for the key exactly the event's created (one more row if there was
\* none, the same rows otherwise) and the request ends with the success
\* acknowledgment.
C5_FreshAcceptance ==
    [][\A w \in Workers :
        /\ (/\ Leaves(w, "gate")
            /\ ev[w].object_id # NoId
            /\ \A i \in Matching(webhook_trackers, ev[w]) :
                    webhook_trackers[i].updated < ev[w].created)
           => pc'[w] = "handler" /\ webhook_trackers' = webhook_trackers
        /\ (Leaves(w, "handler") /\ pc'[w] # "idle")
           => pc'[w] = "increment" /\ calls'[w]["handler"] = 1
        /\ Leaves(w, "increment") => pc'[w] = "write"
        /\ Leaves(w, "write")
           => /\ pc'[w] = "idle"
              /\ ret'[w] = "ack_handled"
              /\ Response(ret'[w]) = Success
              /\ calls'[w]["handler"] = 1
              /\ calls'[w]["write"] = 1
              /\ Stored(webhook_trackers', EventKey(ev[w])) = {ev[w].created}
              /\ Len(webhook_trackers') =
                    (IF Matching(webhook_trackers, ev[w]) = {}
                     THEN Len(webhook_trackers) + 1
                     ELSE Len(webhook_trackers))]_vars

\* C5 witness: a first event created the row of its key and a newer one
\* then updated it.
C5_Witness ==
    \E w \in Workers : \E k \in Keys :
        /\ ret[w] = "ack_handled"
        /\ calls[w]["handler"] = 1
        /\ Len(webhook_trackers) = 1
        /\ Stored(webhook_trackers, k) = {2}
        /\ handled_max[k] = 2

\* The places where a request whose type has no handler ends: the two except
\* clauses for FileNotFoundError and AttributeError.
UnresolvedEnds == {"ack_no_module", "ack_no_handler", "raise_unresolved_log"}

\* C6 (no trace on unresolved): a request whose event type has no module or
\* no function ends with the success acknowledgment, having invoked no
\* handler and neither read nor written the tracker.
C6_NoTraceOnUnresolved ==
    \A w \in Workers :
        ret[w] \in UnresolvedEnds
        => Response(ret[w]) = Success /\ Untouched(calls[w])

\* C7 (signature gate precedence): a request to /receive whose signature is
\* not valid is answered 401, and nothing is resolved, read, written,
\* invoked or published for it.
C7_SignatureGate ==
    [][\A w \in Workers :
        (Leaves(w, "accepted") /\ req[w].path = "/receive" /\ req[w].cred # "valid")
        => /\ Response(ret'[w]) = "401"
           /\ pc'[w] = "idle"
           /\ calls'[w] = NoCalls
           /\ webhook_trackers' = webhook_trackers]_vars

\* C8 (signature verifier totality): for the header of every request that
\* webhook handles, verify_signature returns true when the header is valid
\* and false when it is not, and never raises.
C8_VerifierTotal ==
    [][\A w \in Workers :
        (Leaves(w, "accepted") /\ req[w].path = "/receive")
        => verify_signature(req[w].cred) =
            (IF req[w].cred = "valid" THEN "True" ELSE "False")]_vars

\* C9 (relay secret mismatch is dropped): an envelope on /pubsub whose
\* secret is not the expected one is answered 204, and nothing is resolved,
\* read, written, invoked or published for it.
C9_SecretMismatchDropped ==
    [][\A w \in Workers :
        (Leaves(w, "accepted") /\ req[w].path = "/pubsub" /\ req[w].cred # PUBSUB_SECRET)
        => /\ pc'[w] = "idle"
           /\ ret'[w] = "dropped"
           /\ Response(ret'[w]) = "204"
           /\ calls'[w] = NoCalls
           /\ webhook_trackers' = webhook_trackers]_vars

\* C9 witness: an envelope was dropped.
C9_Witness == \E w \in Workers : ret[w] = "dropped" /\ calls[w] = NoCalls

\* C10 (handler failure): with requests processed one after another, no
\* step of a request up to and including its handler changes the table;
\* when the handler raises, the request ends in a failure response, has
\* written nothing, and the same event delivered again passes the gate.
C10_HandlerFailure ==
    [][\A w \in Workers :
        /\ (pc[w] \in {"accepted", "process_event", "gate", "handler"} /\ pc'[w] # pc[w])
           => webhook_trackers' = webhook_trackers
        /\ (Leaves(w, "handler") /\ pc'[w] = "idle")
           => /\ ret'[w] = "raise_handler"
              /\ Response(ret'[w]) = "500"
              /\ calls'[w]["handler"] = 1
              /\ calls'[w]["write"] = 0
              /\ \A r \in fetch_webhook_tracker(webhook_trackers', ev[w]) :
                    check_webhook_tracker(webhook_trackers', ev[w], r)]_vars

\* C10 witness: a handler raised for an event newer than the row of its key.
C10_Witness ==
    \E w \in Workers : \E k \in Keys :
        /\ ret[w] = "raise_handler"
        /\ calls[w]["write"] = 0
        /\ Stored(webhook_trackers, k) = {1}

\* The places where a request ends whose handler resolution met a rate-limit
\* signal: app.py:109-111 and app.py:112-117.
RateLimitedEnds == {"raise_rate_limited", "raise_rate_limited_log"}

\* C11 (rate limiting during resolution is retryable): a request whose
\* handler resolution raised RateLimitError, or a StripeError with status
\* 429, ends with status 429, not with success, having invoked no handler
\* and neither read nor written the tracker.
C11_RateLimitedRetryable ==
    \A w \in Workers :
        ret[w] \in RateLimitedEnds
        => Response(ret[w]) = "429" /\ Untouched(calls[w])

\* The program points inside process_event and the places where it ends.
PipelinePoints == {"process_event", "gate", "handler", "increment", "write"}
PipelineEnds ==
    Returns \ {"unauthorized", "raise_verify", "published", "raise_publish", "dropped"}

\* The publisher cannot be used as a relay: Publisher.__init__ found no
\* credentials, or PUBSUB_TOPIC is unset or empty.
NoRelay == publisher.client = MISSING \/ publisher.default_topic \in {None, ""}

\* C12 (inline fallback): a /receive request with a valid signature, served
\* while the publisher has no client or no default topic, calls
\* process_event on its event and publishes nothing; no step of
\* process_event publishes, and the request ends where process_event ends,
\* never at the publish.
C12_InlineFallback ==
    [][\A w \in Workers :
        /\ (/\ Leaves(w, "accepted")
            /\ req[w] = [path |-> "/receive", cred |-> "valid"]
            /\ NoRelay)
           => /\ pc'[w] = "process_event"
              /\ ev'[w] \in Events
              /\ calls'[w] = NoCalls
              /\ sent'[w] = None
              /\ webhook_trackers' = webhook_trackers
        /\ (pc[w] \in PipelinePoints /\ pc'[w] # pc[w])
           => /\ calls'[w]["publish"] = 0
              /\ sent'[w] = None
              /\ (pc'[w] = "idle" => ret'[w] \in PipelineEnds)]_vars

\* C12 witness: the topic is configured but there is no client, and
\* process_event has been called for a /receive request.
C12_Witness ==
    \E w \in Workers :
        /\ publisher = [client |-> MISSING, default_topic |-> "topic"]
        /\ pc[w] = "process_event"
        /\ req[w] = [path |-> "/receive", cred |-> "valid"]
        /\ calls[w] = NoCalls
        /\ sent[w] = None

\* What a request that did nothing but one publish has performed.
OnePublish == [NoCalls EXCEPT !["publish"] = 1]

\* C13 (fire-and-forget relay): a /receive request with a valid signature,
\* served while the publisher has a client and a default topic, makes one
\* publish, of an envelope holding the shared secret and the event, and
\* ends there: it returns when the broker has accepted the envelope and
\* raises when the broker reports an error, and in both cases it has
\* resolved no handler, invoked none and not touched the tracker.
C13_FireAndForget ==
    [][\A w \in Workers :
        (/\ Leaves(w, "accepted")
         /\ req[w] = [path |-> "/receive", cred |-> "valid"]
         /\ ~NoRelay)
        => /\ pc'[w] = "idle"
           /\ calls'[w] = OnePublish
           /\ sent'[w] \in {[secret |-> PUBSUB_SECRET, event |-> e] : e \in Events}
           /\ webhook_trackers' = webhook_trackers
           /\ ret'[w] \in {"published", "raise_publish"}
           /\ ret'[w] = "published" => Response(ret'[w]) = "200 null"
           /\ ret'[w] = "raise_publish" => Response(ret'[w]) = "500"]_vars

\* C13 witness: one request was relayed and returned, another met a broker
\* error; neither touched the tracker.
C13_Witness ==
    \E w, o \in Workers :
        /\ ret[w] = "published" /\ pc[w] = "idle"
        /\ ret[o] = "raise_publish" /\ pc[o] = "idle"
        /\ calls[w] = OnePublish /\ calls[o] = OnePublish
        /\ sent[w] = [secret |-> PUBSUB_SECRET,
                      event |-> StripeEvent(InvoicePaid, "in_1", 1)]
        /\ webhook_trackers = <<>>

\* The publishers with which webhook processes inline.
InlinePublishers ==
    {p \in Publishers : p.client = MISSING \/ p.default_topic \in {None, ""}}

\* C14 (path equivalence): with requests processed one after another, in
\* every state of the tracker and for every event, the results (outcome,
\* handler invocations, table) of a delivery on /pubsub with the matching
\* secret are the results of a delivery of that event on /receive with a
\* valid signature and no relay; both endpoints start process_event on the
\* event with nothing done before, and the request then ends with one of
\* those results, the stale result of the idempotency gate included.
C14_PathEquivalence ==
    /\ [](\A e \in Events : \A p \in InlinePublishers :
            run_pubsub(webhook_trackers, Envelope(PUBSUB_SECRET, e))
                = run_webhook(webhook_trackers, p, "valid", e))
    /\ [][\A w \in Workers :
            /\ (/\ Leaves(w, "accepted")
                /\ \/ req[w] = [path |-> "/pubsub", cred |-> PUBSUB_SECRET]
                   \/ req[w] = [path |-> "/receive", cred |-> "valid"] /\ NoRelay)
               => /\ pc'[w] = "process_event"
                  /\ ev'[w] \in Events
                  /\ calls'[w] = NoCalls
                  /\ webhook_trackers' = webhook_trackers
            /\ (pc[w] \in PipelinePoints /\ pc'[w] = "idle")
               => /\ Result(ret'[w], calls'[w]["handler"], webhook_trackers')
                        \in run_pubsub(webhook_trackers, Envelope(PUBSUB_SECRET, ev[w]))
                  /\ \A p \in InlinePublishers :
                        Result(ret'[w], calls'[w]["handler"], webhook_trackers')
                            \in run_webhook(webhook_trackers, p, "valid", ev[w])]_vars

\* C14 witness: a relayed delivery with the matching secret has started
\* process_event on an event older than the record of its key, which the
\* gate skips on either path.
C14_Witness ==
    \E w \in Workers :
        /\ pc[w] = "process_event"
        /\ req[w] = [path |-> "/pubsub", cred |-> PUBSUB_SECRET]
        /\ ev[w] = StripeEvent(InvoicePaid, "in_1", 1)
        /\ Stored(webhook_trackers, EventKey(ev[w])) = {2}
        /\ Result("ack_stale", 0, webhook_trackers)
            \in run_pubsub(webhook_trackers, Envelope(PUBSUB_SECRET, ev[w]))

\* The ids of the rows of key k.
RowsOf(table, k) ==
    {i \in 1..Len(table) : Key(table[i].event_id, table[i].event_type) = k}

\* C15 (logical-key uniqueness): in every reachable state, concurrent first
\* deliveries of one key included, the table holds at most one row per
\* (resource id, event type).
C15_KeyUnique ==
    \A k \in Keys : Cardinality(RowsOf(webhook_trackers, k)) <= 1

\* C16 (commit race is fatal): when a task whose commit found no row for
\* its key reaches the insert after another task has inserted the row of
\* that key, the insert fails: the request ends in an error, is not
\* acknowledged and not retried, and the table keeps the first row as it is.
C16_CommitRaceFatal ==
    [][\A w \in Workers :
        (/\ Leaves(w, "write")
         /\ t[w] = NoRow
         /\ Matching(webhook_trackers, ev[w]) # {})
        => /\ pc'[w] = "idle"
           /\ ret'[w] = "raise_insert"
           /\ Response(ret'[w]) = "500"
           /\ calls'[w]["write"] = 0
           /\ webhook_trackers' = webhook_trackers]_vars

\* Task o has passed the gate for an event of the key of task w's event and
\* has not committed.
PastGateSameKey(w, o) ==
    /\ o # w
    /\ pc[o] \in {"handler", "increment", "write"}
    /\ ev[w].object_id # NoId
    /\ EventKey(ev[o]) = EventKey(ev[w])

\* C17 (double execution is reachable): passing the gate is a read only:
\* it leaves the table as it was, so the row the gate read still lets the
\* same event pass; an event newer than every row of its key, or with no
\* row, passes the gate while another delivery of the key is past the gate
\* and has not committed, and the handler of each is executed.  The witness
\* is the interleaving the claim speaks of.
C17_DoubleExecution ==
    [][\A w, o \in Workers :
        /\ (Leaves(w, "gate") /\ pc'[w] = "handler")
           => /\ webhook_trackers' = webhook_trackers
              /\ check_webhook_tracker(webhook_trackers', ev[w], t'[w])
        /\ (/\ Leaves(w, "gate")
            /\ PastGateSameKey(w, o)
            /\ \A i \in Matching(webhook_trackers, ev[w]) :
                    webhook_trackers[i].updated < ev[w].created)
           => pc'[w] = "handler"
        /\ (Leaves(w, "handler") /\ PastGateSameKey(w, o))
           => calls'[w]["handler"] = 1 /\ webhook_trackers' = webhook_trackers]_vars

\* C17 witness: two deliveries of one event, each of which read no row at
\* the gate, have each executed the handler once, and neither has committed.
C17_Witness ==
    \E w, o \in Workers :
        /\ w # o
        /\ pc[w] = "increment" /\ pc[o] = "increment"
        /\ ev[w] = ev[o]
        /\ t[w] = NoRow /\ t[o] = NoRow
        /\ calls[w]["handler"] = 1 /\ calls[o]["handler"] = 1
        /\ webhook_trackers = <<>>

\* C18 (no collision protection on the update path): a commit that found a
\* row of its key is never rejected, whatever another delivery of the key
\* has written meanwhile: it writes the event's created into that row and
\* nothing else, the handler has run, and the request ends with the success
\* acknowledgment; a commit is rejected only if it found no row.
C18_UpdateUnprotected ==
    [][\A w \in Workers :
        /\ (Leaves(w, "write") /\ t[w] # NoRow)
           => /\ ret'[w] = "ack_handled"
              /\ Response(ret'[w]) = Success
              /\ calls'[w]["handler"] = 1
              /\ calls'[w]["write"] = 1
              /\ Len(webhook_trackers') = Len(webhook_trackers)
              /\ webhook_trackers'[t[w]].updated = ev[w].created
              /\ \A i \in 1..Len(webhook_trackers) :
                    i # t[w] => webhook_trackers'[i] = webhook_trackers[i]
        /\ (Leaves(w, "write") /\ ret'[w] = "raise_insert") => t[w] = NoRow]_vars

\* C18 witness: two deliveries of one key, created 2 and 3, have both read
\* the existing row at the gate and passed, and both handlers have run.
C18_Witness ==
    \E w, o \in Workers :
        /\ pc[w] = "increment" /\ pc[o] = "increment"
        /\ EventKey(ev[w]) = EventKey(ev[o])
        /\ ev[w].created = 2 /\ ev[o].created = 3
        /\ t[w] # NoRow /\ t[o] = t[w]
        /\ webhook_trackers[t[w]].updated = 1
        /\ calls[w]["handler"] = 1 /\ calls[o]["handler"] = 1

\* The request of task w performs a tracker write in this step.
Writes(w) == calls'[w]["write"] = calls[w]["write"] + 1

\* C19 (commit follows the handler): the table changes only in a step in
\* which some request writes the tracker; a request writes only in its
\* commit, after its handler has been invoked once and has returned, and
\* what it writes is its event's created, into a new row of the event's key
\* when its fetch found none and into the fetched row otherwise; a request
\* that has written has invoked its handler.
C19_CommitFollowsHandler ==
    /\ [][/\ webhook_trackers' # webhook_trackers => \E w \in Workers : Writes(w)
          /\ \A w \in Workers :
                Writes(w)
                => /\ pc[w] = "write"
                   /\ calls[w]["handler"] = 1
                   /\ calls[w]["write"] = 0
                   /\ webhook_trackers' =
                        (IF t[w] = NoRow
                         THEN webhook_trackers \o
                                <<[event_id |-> ev[w].object_id,
                                   event_type |-> ev[w].type,
                                   updated |-> ev[w].created]>>
                         ELSE [webhook_trackers EXCEPT
                                ![t[w]] = [@ EXCEPT !.updated = ev[w].created]])]_vars
    /\ [](\A w \in Workers : calls[w]["write"] > 0 => calls[w]["handler"] = 1)

\* C19 witness: the first event of the second invoice has been handled and
\* committed: one handler call, then one write of its created.
C19_Witness ==
    \E w \in Workers :
        /\ ret[w] = "ack_handled"
        /\ calls[w]["handler"] = 1 /\ calls[w]["write"] = 1
        /\ webhook_trackers =
            <<[event_id |-> "in_2", event_type |-> InvoicePaid, updated |-> 1]>>

\* The six terminal outcomes of process_event: unresolved (acknowledged),
\* rate-limited (retry signal), stale (acknowledged), fresh and handled
\* (acknowledged after the commit), handler error (propagated) and commit
\* race (fatal error).
TerminalOutcomes ==
    {"ack_no_module", "ack_no_handler", "raise_rate_limited", "ack_stale",
     "ack_handled", "raise_handler", "raise_insert"}

\* C20 (terminal outcomes): every call of process_event, whatever handler
\* resolution gives (found, no module, no function, rate-limited, any other
\* Stripe error), ends in one of the six terminal outcomes, and only the
\* outcome that commits changes the table.
C20_TerminalOutcomes ==
    [][\A w \in Workers :
        (pc[w] \in PipelinePoints /\ pc'[w] = "idle")
        => /\ ret'[w] \in TerminalOutcomes
           /\ ret'[w] # "ack_handled" => webhook_trackers' = webhook_trackers]_vars

\* The places where process_event ends on rate limiting, on a handler
\* failure, on a commit collision and on another error of the resolution.
FailureEnds ==
    RateLimitedEnds \cup {"raise_handler", "raise_insert", "raise_assert"}

\* C21 (positive acknowledgment is justified): when a call of process_event
\* returns the success acknowledgment, exactly one of these holds of it: the
\* event's type has no handler and the call stopped at the resolution; the
\* gate read a row of the event's key at least as recent as the event and
\* the call stopped there, with no handler call and no write; the handler
\* was called once and returned and the commit has written the event's
\* created into a row of its key.  A call that ends on rate limiting, a
\* handler failure, a commit collision or another resolution error is not
\* acknowledged.
C21_AckJustified ==
    [][\A w \in Workers :
        (pc[w] \in PipelinePoints /\ pc'[w] = "idle")
        => LET unresolved ==
                /\ pc[w] = "process_event"
                /\ resolve(ev[w].type, "loaded") # "found"
                /\ Untouched(calls'[w])
                /\ webhook_trackers' = webhook_trackers
               stale ==
                /\ pc[w] = "gate"
                /\ \E i \in Matching(webhook_trackers, ev[w]) :
                        webhook_trackers[i].updated >= ev[w].created
                /\ calls'[w]["handler"] = 0
                /\ calls'[w]["write"] = 0
                /\ webhook_trackers' = webhook_trackers
               handled ==
                /\ pc[w] = "write"
                /\ calls'[w]["handler"] = 1
                /\ calls'[w]["write"] = 1
                /\ \E i \in Matching(webhook_trackers', ev[w]) :
                        webhook_trackers'[i].updated = ev[w].created
           IN  /\ Response(ret'[w]) = Success
                  => Cardinality({c \in {"unresolved", "stale", "handled"} :
                        \/ c = "unresolved" /\ unresolved
                        \/ c = "stale" /\ stale
                        \/ c = "handled" /\ handled}) = 1
               /\ ret'[w] \in FailureEnds => Response(ret'[w]) # Success]_vars

\* C21 witness: one request was acknowledged because its type has no
\* handler, another because the gate found the row of its key as recent as
\* its event, after the event that wrote the row was acknowledged.
C21_Witness ==
    \E w, o \in Workers : \E k \in Keys :
        /\ w # o
        /\ pc[w] = "idle" /\ ret[w] = "ack_no_handler" /\ Untouched(calls[w])
        /\ pc[o] = "idle" /\ ret[o] = "ack_stale" /\ calls[o]["handler"] = 0
        /\ handled_max[k] = 2
        /\ Stored(webhook_trackers, k) = {2}

\* C22 (no internal retry): a request invokes the handler at most once and
\* writes the tracker at most once: the handler is invoked only at the call
\* at app.py:127 and the tracker is written only in the commit, each by a
\* request that has not done so before; a handler that raises and a commit
\* whose insert collides end the request at once, with nothing written, and
\* a task whose request has ended does nothing more until the server hands
\* it a new request.
C22_NoInternalRetry ==
    /\ [](\A w \in Workers : calls[w]["handler"] <= 1 /\ calls[w]["write"] <= 1)
    /\ [][\A w \in Workers :
            /\ calls'[w]["handler"] > calls[w]["handler"]
               => pc[w] = "handler" /\ calls[w]["handler"] = 0
            /\ calls'[w]["write"] > calls[w]["write"]
               => pc[w] = "write" /\ calls[w]["write"] = 0
            /\ (pc[w] = "handler" /\ calls'[w]["handler"] = 1 /\ pc'[w] # "increment")
               => /\ pc'[w] = "idle"
                  /\ ret'[w] = "raise_handler"
                  /\ calls'[w]["write"] = 0
                  /\ webhook_trackers' = webhook_trackers
            /\ (Leaves(w, "write") /\ calls'[w]["write"] = 0)
               => /\ pc'[w] = "idle"
                  /\ ret'[w] = "raise_insert"
                  /\ calls'[w]["handler"] = 1
                  /\ webhook_trackers' = webhook_trackers
            /\ (pc[w] = "idle" /\ pc'[w] # "idle")
               => pc'[w] = "accepted" /\ calls'[w] = NoCalls]_vars

\* C22 witness: one request ended on a handler that raised, another on an
\* insert that collided; each invoked the handler once and wrote nothing.
C22_Witness ==
    \E w, o \in Workers :
        /\ pc[w] = "idle" /\ ret[w] = "raise_handler"
        /\ calls[w]["handler"] = 1 /\ calls[w]["write"] = 0
        /\ pc[o] = "idle" /\ ret[o] = "raise_insert"
        /\ calls[o]["handler"] = 1 /\ calls[o]["write"] = 0

\* C23 (key isolation): in every interleaving and from either endpoint, no
\* step removes a row or changes the key of a row, and a row that a step
\* adds or changes has the key of the event of the request that takes the
\* step, which is at its commit.
C23_KeyIsolation ==
    [][/\ Len(webhook_trackers') >= Len(webhook_trackers)
       /\ \A i \in 1..Len(webhook_trackers) :
            /\ webhook_trackers'[i].event_id = webhook_trackers[i].event_id
            /\ webhook_trackers'[i].event_type = webhook_trackers[i].event_type
       /\ \A i \in 1..Len(webhook_trackers') :
            (i > Len(webhook_trackers) \/ webhook_trackers'[i] # webhook_trackers[i])
            => \E w \in Workers :
                /\ pc[w] = "write" /\ pc'[w] = "idle"
                /\ Key(webhook_trackers'[i].event_id, webhook_trackers'[i].event_type)
                    = EventKey(ev[w])]_vars

\* C23 witness: the row of the first invoice was created after the row of
\* the second and has been updated to the newest timestamp; the row of the
\* second invoice is as it was written.
C23_Witness ==
    /\ Len(webhook_trackers) = 2
    /\ webhook_trackers[1] =
        [event_id |-> "in_2", event_type |-> InvoicePaid, updated |-> 1]
    /\ webhook_trackers[2] =
        [event_id |-> "in_1", event_type |-> InvoicePaid, updated |-> MaxCreated]
    /\ handled_max[Key("in_1", InvoicePaid)] = MaxCreated
    /\ \E w \in Workers : pc[w] = "idle" /\ ret[w] = "ack_handled"

====
